---- MODULE Spec2Model ----
(***************************************************************************)
(* Paystub compliance service: job status bookkeeping and the background   *)
(* processing pipeline of src/server_new.py, with the synchronous handler  *)
(* of src/server.py as a second specification.                             *)
(*                                                                         *)
(* A file_url (the source handle) is the sequence of its '/'-separated     *)
(* path components: "paystub_uploads/x.pdf" is <<"paystub_uploads",        *)
(* "x.pdf">>.  None is <<>> and the empty string is <<"">>.                *)
(***************************************************************************)
EXTENDS Integers, Sequences, FiniteSets, TLC

VARIABLES db, runs, uploads, resp

vars == <<db, runs, uploads, resp>>

(***************************************************************************)
(* Bounds of the model.                                                    *)
(***************************************************************************)
\* path components of a submitted file_url
MaxParts == 3
\* exceeded_shifts_count of a request
MaxShifts == 1

(***************************************************************************)
(* Input sets.                                                             *)
(***************************************************************************)
Dirs == {"paystub_uploads"}

Files == {"x.pdf"}

\* dir/.../file with at most MaxParts components
Handles ==
    {d \o <<f>> : d \in UNION {[1..n -> Dirs] : n \in 0..(MaxParts - 1)}, f \in Files}

NoneUrl == <<>>

EmptyUrl == <<"">>

NoneEmail == "<None>"

GoodEmail == "user@example.com"

BadEmail == "not-an-address"

Emails == {GoodEmail, BadEmail, ""}

\* Python truthiness of the request fields
FalsyUrl(file_url) == file_url = NoneUrl \/ file_url = EmptyUrl

FalsyEmail(email) == email = NoneEmail \/ email = ""

(***************************************************************************)
(* generate_document_id: normalise to the last two path components, then   *)
(* hash.  md5 is modelled as a collision-free digest: a positional code of *)
(* the component sequence, so that distinct strings get distinct digests.  *)
(***************************************************************************)
CompList == <<"", "paystub_uploads", "x.pdf">>

CompCode(c) == CHOOSE i \in 1..Len(CompList) : CompList[i] = c

RECURSIVE Md5(_)
Md5(s) ==
    IF s = <<>> THEN 0
    ELSE Md5(SubSeq(s, 1, Len(s) - 1)) * (Len(CompList) + 1) + CompCode(s[Len(s)])

\* '/' in file_url  <=>  the split has at least two parts
Normalize(file_url) ==
    IF Len(file_url) >= 2
    THEN SubSeq(file_url, Len(file_url) - 1, Len(file_url))
    ELSE file_url

\* variant: the hash of the file name alone (os.path.basename)
generate_document_id_basename(file_url) ==
    Md5(SubSeq(file_url, Len(file_url), Len(file_url)))

generate_document_id(file_url) == Md5(Normalize(file_url))

\* server.py hashes the file_url as it comes
legacy_generate_document_id(file_url) == Md5(file_url)

DocIds ==
    {generate_document_id(h) : h \in Handles}
    \cup {legacy_generate_document_id(h) : h \in Handles \cup {EmptyUrl}}

(***************************************************************************)
(* The Firestore collection 'processing_status'.                           *)
(***************************************************************************)
Msg(text, detail) == [text |-> text, detail |-> detail]

NoDoc == [exists |-> FALSE]

Doc(file_url, email, status, message) ==
    [exists |-> TRUE, file_url |-> file_url, email |-> email,
     status |-> status, message |-> message]

\* variant: a document with a terminal status is not replaced
update_processing_status_first_wins(store, file_url, email, status, message, ok) ==
    IF /\ ok
       /\ ~(/\ store[Md5(Normalize(file_url))].exists
            /\ store[Md5(Normalize(file_url))].status
                   \in {"completed", "completed_with_errors", "failed"})
    THEN [store EXCEPT ![Md5(Normalize(file_url))] =
              Doc(file_url, email, status, message)]
    ELSE store

\* doc_ref.set(...) replaces the whole document; when the store raises, the
\* exception is swallowed and the collection is left as it was.
update_processing_status(store, file_url, email, status, message, ok) ==
    IF ok
    THEN [store EXCEPT ![generate_document_id(file_url)] =
              Doc(file_url, email, status, message)]
    ELSE store

\* one call of update_processing_status, as recorded in a run's history
Write(status, message) == [status |-> status, message |-> message]

TerminalStatuses == {"completed", "completed_with_errors", "failed"}

Statuses == {"uploaded", "processing"} \cup TerminalStatuses

(***************************************************************************)
(* Extracted text and parse_paystub_data.                                  *)
(*                                                                         *)
(* A text is a sequence of lines, a line a label followed by a value, the  *)
(* value a sequence of characters that group 1 of the field's patterns     *)
(* captures whole.  The empty text "" is <<>>.  Numbers are held in        *)
(* hundredths (640.00 is 64000).                                           *)
(***************************************************************************)
Digits == <<"0", "1", "2", "3", "4", "5", "6", "7", "8", "9">>

IsDigit(c) == \E i \in 1..Len(Digits) : Digits[i] = c

DigitVal(c) == (CHOOSE i \in 1..Len(Digits) : Digits[i] = c) - 1

Line(label, value) == [label |-> label, value |-> value]

\* dict order of PATTERNS
Keys == <<"employee_name", "net_pay", "total_hours", "gross_pay">>

\* the label part of each pattern of PATTERNS, in list order
PATTERNS ==
    [employee_name |-> <<"EMPLOYEE\\s*NAME:", "NAME:", "EMPLOYEE:">>,
     net_pay       |-> <<"NET\\s*PAY:", "NET\\s*PAY", "TOTAL\\s*NET\\s*PAY:">>,
     total_hours   |-> <<"TOTAL\\s*HOURS:", "HOURS\\s*WORKED:", "HOURS:">>,
     gross_pay     |-> <<"GROSS\\s*PAY:", "GROSS\\s*EARNINGS:", "TOTAL\\s*GROSS:">>]

\* the line labels in which re.search finds the label part of a pattern (an
\* unanchored search: "NAME:" is found in "EMPLOYEE NAME:", "NET\s*PAY:" in
\* "TOTAL NET PAY:", "HOURS:" in "TOTAL HOURS:")
LabelHits(pattern) ==
    CASE pattern = "EMPLOYEE\\s*NAME:"      -> {"EMPLOYEE NAME:"}
      [] pattern = "NAME:"                  -> {"EMPLOYEE NAME:", "NAME:"}
      [] pattern = "EMPLOYEE:"              -> {"EMPLOYEE:"}
      [] pattern = "NET\\s*PAY:"            -> {"NET PAY:", "TOTAL NET PAY:"}
      [] pattern = "NET\\s*PAY"             -> {"NET PAY"}
      [] pattern = "TOTAL\\s*NET\\s*PAY:"   -> {"TOTAL NET PAY:"}
      [] pattern = "TOTAL\\s*HOURS:"        -> {"TOTAL HOURS:"}
      [] pattern = "HOURS\\s*WORKED:"       -> {"HOURS WORKED:"}
      [] pattern = "HOURS:"                 -> {"TOTAL HOURS:", "HOURS:"}
      [] pattern = "GROSS\\s*PAY:"          -> {"GROSS PAY:"}
      [] pattern = "GROSS\\s*EARNINGS:"     -> {"GROSS EARNINGS:"}
      [] pattern = "TOTAL\\s*GROSS:"        -> {"TOTAL GROSS:"}
      [] OTHER                              -> {}

\* re.search(pattern, text, re.IGNORECASE): the leftmost match, 0 when none
Search(pattern, text) ==
    LET hits == {i \in 1..Len(text) : text[i].label \in LabelHits(pattern)}
    IN  IF hits = {} THEN 0 ELSE CHOOSE i \in hits : \A j \in hits : i <= j

\* value.replace(',', '')
RECURSIVE StripCommas(_)
StripCommas(s) ==
    IF s = <<>> THEN <<>>
    ELSE IF Head(s) = "," THEN StripCommas(Tail(s))
    ELSE <<Head(s)>> \o StripCommas(Tail(s))

RECURSIVE DigitsValue(_)
DigitsValue(s) ==
    IF s = <<>> THEN 0
    ELSE DigitsValue(SubSeq(s, 1, Len(s) - 1)) * 10 + DigitVal(s[Len(s)])

\* float(value) of a string of digits and dots: a ValueError unless it has at
\* most one dot and at least one digit
FloatOk(s) ==
    /\ Cardinality({i \in 1..Len(s) : s[i] = "."}) <= 1
    /\ \E i \in 1..Len(s) : IsDigit(s[i])
    /\ \A i \in 1..Len(s) : IsDigit(s[i]) \/ s[i] = "."

Float(s) ==
    LET dots == {i \in 1..Len(s) : s[i] = "."}
        dot  == IF dots = {} THEN Len(s) + 1 ELSE CHOOSE i \in dots : TRUE
        int  == SubSeq(s, 1, dot - 1)
        frac == SubSeq(s, dot + 1, Len(s))
        f2   == SubSeq(frac \o <<"0", "0">>, 1, 2)
    IN  DigitsValue(int) * 100 + DigitsValue(f2)

NoneValue == [kind |-> "None", num |-> 0, str |-> <<>>]

NumValue(n) == [kind |-> "float", num |-> n, str |-> <<>>]

StrValue(s) == [kind |-> "str", num |-> 0, str |-> s]

\* value.strip()
RECURSIVE LStrip(_)
LStrip(s) == IF s # <<>> /\ Head(s) = " " THEN LStrip(Tail(s)) ELSE s

RECURSIVE RStrip(_)
RStrip(s) ==
    IF s # <<>> /\ s[Len(s)] = " " THEN RStrip(SubSeq(s, 1, Len(s) - 1)) ELSE s

Strip(s) == RStrip(LStrip(s))

\* variant: no break, the last pattern with a match that converts decides
RECURSIVE ParseFieldNoBreak(_, _, _)
ParseFieldNoBreak(key, text, n) ==
    IF n > Len(PATTERNS[key]) THEN NoneValue
    ELSE LET rest == ParseFieldNoBreak(key, text, n + 1)
             m    == Search(PATTERNS[key][n], text)
         IN  IF rest # NoneValue THEN rest
             ELSE IF m = 0 THEN NoneValue
             ELSE LET value == StripCommas(text[m].value)
                  IN  IF key = "employee_name" THEN StrValue(Strip(value))
                      ELSE IF FloatOk(value) THEN NumValue(Float(value))
                      ELSE NoneValue

\* the inner loop over pattern_list from pattern n on: the first pattern that
\* matches and whose value converts decides the field; None when none does
RECURSIVE ParseField(_, _, _)
ParseField(key, text, n) ==
    IF n > Len(PATTERNS[key]) THEN NoneValue
    ELSE LET m == Search(PATTERNS[key][n], text)
         IN  IF m = 0 THEN ParseField(key, text, n + 1)
             ELSE LET value == StripCommas(text[m].value)
                  IN  IF key = "employee_name" THEN StrValue(Strip(value))
                      ELSE IF FloatOk(value) THEN NumValue(Float(value))
                      ELSE ParseField(key, text, n + 1)

EmptyDict == <<>>

\* variant: the loop over the keys ends at the first key left without a value
parse_paystub_data_aborts(text, fault) ==
    IF text = <<>> THEN EmptyDict
    ELSE LET found == {i \in 1..Len(Keys) :
                          \A j \in 1..i : ParseField(Keys[j], text, 1) # NoneValue}
         IN  [k \in {Keys[i] : i \in found} |-> ParseField(k, text, 1)]

\* parse_paystub_data.  fault = 0: the loop runs to its end; fault = k > 0: an
\* exception is raised while the k-th key is processed and the except clause
\* returns the keys stored so far.
parse_paystub_data(text, fault) ==
    IF text = <<>> THEN EmptyDict
    ELSE LET done == IF fault = 0 THEN Len(Keys) ELSE fault - 1
         IN  [k \in {Keys[i] : i \in 1..done} |-> ParseField(k, text, 1)]

(***************************************************************************)
(* perform_compliance_checks.  Amounts are in hundredths of a dollar,      *)
(* hours in hundredths of an hour; a rate is the fraction num / den in     *)
(* dollars per hour, and comparisons are cross-multiplied.                 *)
(***************************************************************************)
\* MINIMUM_WAGE = 16.5, in hundredths
MINIMUM_WAGE == 1650

\* OVERTIME_RATE = 1.5 = OvertimeNum / OvertimeDen
OvertimeNum == 3

OvertimeDen == 2

\* LONG_SHIFT_BONUS = 1.0, in hundredths of an hour
LONG_SHIFT_BONUS == 100

\* the 40 of "total_hours <= 40", in hundredths of an hour
StandardWeek == 4000

UserInput(exceeded, count) ==
    [shifts_exceeded_10_hours |-> exceeded, exceeded_shifts_count |-> count]

\* float(data.get(key, 0) or 0)
GetNumber(data, key) ==
    IF key \in DOMAIN data /\ data[key].kind = "float" THEN data[key].num ELSE 0

\* variant: overtime_pay taken to be the whole gross_pay
check_overtime_compliance_gross(hours, num, den, gross_pay) ==
    IF hours <= StandardWeek THEN TRUE
    ELSE OvertimeDen * gross_pay * den >= OvertimeNum * (hours - StandardWeek) * num

\* variant: the overtime hours owed at the regular rate, without OVERTIME_RATE
check_overtime_compliance_straight(hours, num, den, gross_pay) ==
    IF hours <= StandardWeek THEN TRUE
    ELSE gross_pay * den - StandardWeek * num >= (hours - StandardWeek) * num

\* hours, gross_pay in hundredths; hourly_rate = num / den
check_overtime_compliance(hours, num, den, gross_pay) ==
    IF hours <= StandardWeek THEN TRUE
    ELSE \* gross_pay - 40 * rate >= (hours - 40) * rate * OVERTIME_RATE
         OvertimeDen * (gross_pay * den - StandardWeek * num)
             >= OvertimeNum * (hours - StandardWeek) * num

\* variant: the long shift branch taken without looking at the count
perform_compliance_checks_any_count(data, user_input) ==
    LET net_pay     == GetNumber(data, "net_pay")
        total_hours == GetNumber(data, "total_hours")
        gross_pay   == GetNumber(data, "gross_pay")
        rated       == net_pay > 0 /\ total_hours > 0
        num         == IF total_hours <= StandardWeek THEN net_pay ELSE gross_pay
        long        == user_input.shifts_exceeded_10_hours
        checks      ==
            [minimum_wage |-> rated /\ num * 100 >= MINIMUM_WAGE * total_hours,
             overtime_compliant |->
                 rated /\ check_overtime_compliance(total_hours, num, total_hours, gross_pay),
             total_compensation_valid |-> net_pay > 0 /\ gross_pay > 0,
             long_shift_additional_pay_violation |-> long]
    IN  IF long
        THEN [has_additional_pay |-> TRUE,
              additional_pay_owed |->
                  (user_input.exceeded_shifts_count * MINIMUM_WAGE * LONG_SHIFT_BONUS) \div 100,
              checks |-> checks]
        ELSE [has_additional_pay |-> FALSE, additional_pay_owed |-> 0, checks |-> checks]

\* variant: the hourly rate is net_pay / total_hours whatever the hours
perform_compliance_checks_net_rate(data, user_input) ==
    LET net_pay     == GetNumber(data, "net_pay")
        total_hours == GetNumber(data, "total_hours")
        gross_pay   == GetNumber(data, "gross_pay")
        rated       == net_pay > 0 /\ total_hours > 0
        long        == /\ user_input.shifts_exceeded_10_hours
                       /\ user_input.exceeded_shifts_count > 0
        checks      ==
            [minimum_wage |-> rated /\ net_pay * 100 >= MINIMUM_WAGE * total_hours,
             overtime_compliant |->
                 rated /\ check_overtime_compliance(total_hours, net_pay, total_hours, gross_pay),
             total_compensation_valid |-> net_pay > 0 /\ gross_pay > 0,
             long_shift_additional_pay_violation |-> long]
    IN  IF long
        THEN [has_additional_pay |-> TRUE,
              additional_pay_owed |->
                  (user_input.exceeded_shifts_count * MINIMUM_WAGE * LONG_SHIFT_BONUS) \div 100,
              checks |-> checks]
        ELSE [has_additional_pay |-> FALSE, additional_pay_owed |-> 0, checks |-> checks]

perform_compliance_checks(data, user_input) ==
    LET net_pay     == GetNumber(data, "net_pay")
        total_hours == GetNumber(data, "total_hours")
        gross_pay   == GetNumber(data, "gross_pay")
        rated       == net_pay > 0 /\ total_hours > 0
        num         == IF total_hours <= StandardWeek THEN net_pay ELSE gross_pay
        long        == /\ user_input.shifts_exceeded_10_hours
                       /\ user_input.exceeded_shifts_count > 0
        checks      ==
            [minimum_wage |-> rated /\ num * 100 >= MINIMUM_WAGE * total_hours,
             overtime_compliant |->
                 rated /\ check_overtime_compliance(total_hours, num, total_hours, gross_pay),
             total_compensation_valid |-> net_pay > 0 /\ gross_pay > 0,
             long_shift_additional_pay_violation |-> long]
    IN  IF long
        THEN [has_additional_pay |-> TRUE,
              additional_pay_owed |->
                  (user_input.exceeded_shifts_count * MINIMUM_WAGE * LONG_SHIFT_BONUS) \div 100,
              checks |-> checks]
        ELSE [has_additional_pay |-> FALSE, additional_pay_owed |-> 0, checks |-> checks]

NoChecks ==
    [has_additional_pay |-> FALSE, additional_pay_owed |-> 0,
     checks |-> [minimum_wage |-> FALSE, overtime_compliant |-> FALSE,
                 total_compensation_valid |-> FALSE,
                 long_shift_additional_pay_violation |-> FALSE]]

(***************************************************************************)
(* State.                                                                  *)
(*   db       the collection processing_status, by document id             *)
(*   runs     the accepted process-paystub submissions in order of         *)
(*            acceptance, each with its background thread's position and   *)
(*            locals, the collaborator calls it made (calls) and its calls *)
(*            of update_processing_status (writes), and the response sent  *)
(*            to the request                                               *)
(*   uploads  the file names stored by upload-paystub                      *)
(*   resp     the response sent last to any other request                  *)
(***************************************************************************)
PipelineTexts ==
    { <<>>,
      <<Line("EMPLOYEE NAME:", <<"A", "l">>),
        Line("NET PAY:", <<"6", "4", "0", ".", "0", "0">>),
        Line("TOTAL HOURS:", <<"4", "0">>),
        Line("GROSS PAY:", <<"8", "0", "0", ".", "0", "0">>)>> }

\* where parse_paystub_data may be interrupted: never, or at its first key
ParseFaults == {0, 1}

\* what parse_paystub_data returns for the texts and faults of the model
ParsedTexts ==
    [t \in PipelineTexts |-> [fault \in ParseFaults |-> parse_paystub_data(t, fault)]]

\* str(e) of an exception raised by a pipeline step
ErrorDetails == {"boom"}

NoCalls ==
    [download |-> 0, extract |-> 0, parse |-> 0, evaluate |-> 0, render |-> 0, mail |-> 0]

NoMsg == Msg("", "")

\* a response, with the file_url of the request it answers
Resp(route, code, status, message, file_url) ==
    [route |-> route, code |-> code, status |-> status, message |-> message,
     file_url |-> file_url, to |-> NoneUrl]

NoResp == Resp("", 0, "", NoMsg, NoneUrl)

ErrorResp(route, code, error) == Resp(route, code, "", Msg(error, ""), NoneUrl)

To(file_url, response) == [response EXCEPT !.to = file_url]

NewRun(file_url, email, user_input, pc, writes) ==
    [file_url |-> file_url, email |-> email, user_input |-> user_input,
     pc |-> pc, response |-> NoResp,
     pdf_path |-> "unset", text |-> <<>>, data |-> EmptyDict,
     compliance_results |-> NoChecks, report_path |-> "unset", email_sent |-> "unset",
     error |-> "", calls |-> NoCalls, writes |-> writes]

Init ==
    /\ db = [k \in DocIds |-> NoDoc]
    /\ runs = <<>>
    /\ uploads = {}
    /\ resp = NoResp

\* one collaborator call of a run
Call(run, step) == [run EXCEPT !.calls[step] = @ + 1]

\* a pipeline step that goes on to the next step
Goto(r, run, pc) ==
    /\ runs' = [runs EXCEPT ![r] = [run EXCEPT !.pc = pc]]
    /\ db' = db

\* variant: the run ends only when the store has taken the status update
FinishStored(r, run, status, message) ==
    /\ runs' = [runs EXCEPT ![r] =
                  [run EXCEPT !.pc = "done",
                              !.writes = Append(@, Write(status, message))]]
    /\ db' = update_processing_status(db, run.file_url, run.email, status, message, TRUE)

\* a pipeline step that ends the run with one status update, which the store
\* takes or refuses
Finish(r, run, status, message) ==
    /\ runs' = [runs EXCEPT ![r] =
                  [run EXCEPT !.pc = "done",
                              !.writes = Append(@, Write(status, message))]]
    /\ \E ok \in BOOLEAN :
           db' = update_processing_status(db, run.file_url, run.email, status, message, ok)

\* variant: the status message without str(e)
RaisedNoDetail(r, run, detail) ==
    Finish(r, [run EXCEPT !.error = detail], "failed",
           Msg("Error processing paystub", ""))

\* variant: no except clause, the exception ends the thread
RaisedEscapes(r, run, detail) ==
    /\ runs' = [runs EXCEPT ![r] = [run EXCEPT !.error = detail, !.pc = "escaped"]]
    /\ db' = db

\* the except clause of process_paystub_async
Raised(r, run, detail) ==
    Finish(r, [run EXCEPT !.error = detail], "failed",
           Msg("Error processing paystub: ", detail))

(***************************************************************************)
(* validate_email: email_validator accepts or rejects the address.         *)
(***************************************************************************)
validate_email(email) == IF email = GoodEmail THEN "" ELSE "The email address is not valid."

(***************************************************************************)
(* POST /process-paystub (server_new.py).                                  *)
(***************************************************************************)
\* shifts_exceeded_10_hours and exceeded_shifts_count as sent: no long shift
\* (the defaults), up to MaxShifts long shifts, or a count that int() refuses
UserInputsSent ==
    {[shifts_exceeded_10_hours |-> n > 0, exceeded_shifts_count |-> [conv |-> TRUE, n |-> n]] :
         n \in 0..MaxShifts}
    \cup {[shifts_exceeded_10_hours |-> FALSE, exceeded_shifts_count |-> [conv |-> FALSE, n |-> 0]]}

Requests ==
    [is_json : BOOLEAN,
     file_url : Handles \cup {NoneUrl, EmptyUrl},
     email : Emails \cup {NoneEmail},
     user_input : UserInputsSent]

\* the checks of process_paystub before any status is written: the error
\* response, or NoResp when the request passes
ProcessValidation(req) ==
    IF ~req.is_json
    THEN ErrorResp("process-paystub", 400, "Request must be JSON")
    ELSE IF ~req.user_input.exceeded_shifts_count.conv
    THEN ErrorResp("process-paystub", 500, "Internal Server Error")
    ELSE IF FalsyUrl(req.file_url)
    THEN ErrorResp("process-paystub", 400, "file_url is required")
    ELSE IF FalsyEmail(req.email)
    THEN ErrorResp("process-paystub", 400, "email is required")
    ELSE IF validate_email(req.email) # ""
    THEN ErrorResp("process-paystub", 400, "Invalid email")
    ELSE NoResp

ProcessRejections == {ProcessValidation(req) : req \in Requests} \ {NoResp}

\* what an accepted request hands to the thread
Accepted ==
    {<<req.file_url, req.email,
       UserInput(req.user_input.shifts_exceeded_10_hours,
                 req.user_input.exceeded_shifts_count.n)>> :
        req \in {q \in Requests : ProcessValidation(q) = NoResp}}

\* a request that fails a check is answered at once
ProcessRejected ==
    /\ \E e \in ProcessRejections : resp' = e
    /\ UNCHANGED <<db, runs, uploads>>

\* variant: a file_url submitted before is not taken again
ProcessAcceptedOnce ==
    /\ \E a \in Accepted, ok \in BOOLEAN :
         LET message == Msg("Starting paystub processing", "")
         IN  /\ \A r \in 1..Len(runs) : runs[r].file_url # a[1]
             /\ runs' = Append(runs, NewRun(a[1], a[2], a[3], "download",
                                            <<Write("processing", message)>>))
             /\ db' = update_processing_status(db, a[1], a[2], "processing", message, ok)
    /\ UNCHANGED <<uploads, resp>>

\* an accepted request: 'processing' is recorded and the thread is started
ProcessAccepted ==
    /\ \E a \in Accepted, ok \in BOOLEAN :
         LET message == Msg("Starting paystub processing", "")
         IN  /\ runs' = Append(runs, NewRun(a[1], a[2], a[3], "download",
                                            <<Write("processing", message)>>))
             /\ db' = update_processing_status(db, a[1], a[2], "processing", message, ok)
    /\ UNCHANGED <<uploads, resp>>

\* an accepted request whose Thread.start raises: 'processing', then 'failed'
\* is recorded, and the answer is a 500
ProcessNotStarted ==
    /\ \E a \in Accepted, ok1 \in BOOLEAN, ok2 \in BOOLEAN :
         LET m1  == Msg("Starting paystub processing", "")
             m2  == Msg("Error starting processing: ", "can't start new thread")
             db1 == update_processing_status(db, a[1], a[2], "processing", m1, ok1)
             run == NewRun(a[1], a[2], a[3], "not_started",
                           <<Write("processing", m1), Write("failed", m2)>>)
         IN  /\ runs' = Append(runs, [run EXCEPT !.response =
                   ErrorResp("process-paystub", 500, "Failed to start processing")])
             /\ db' = update_processing_status(db1, a[1], a[2], "failed", m2, ok2)
    /\ UNCHANGED <<uploads, resp>>

\* variant: the thread is joined before the response is returned
ProcessRespondJoined ==
    \E r \in 1..Len(runs) :
        /\ runs[r].response = NoResp
        /\ runs[r].pc = "done"
        /\ runs' = [runs EXCEPT ![r].response =
                      Resp("process-paystub", 200, "processing",
                           Msg("Paystub processing started", ""), runs[r].file_url)]
        /\ UNCHANGED <<db, uploads, resp>>

\* return jsonify(...) of an accepted request whose thread was started
ProcessRespond ==
    \E r \in 1..Len(runs) :
        /\ runs[r].response = NoResp
        /\ runs' = [runs EXCEPT ![r].response =
                      Resp("process-paystub", 200, "processing",
                           Msg("Paystub processing started", ""), runs[r].file_url)]
        /\ UNCHANGED <<db, uploads, resp>>

(***************************************************************************)
(* process_paystub_async: the background thread, one action per step.  A   *)
(* step that ends the run includes its status update.                      *)
(***************************************************************************)
\* variant: a failed download is tried again
DownloadRetried ==
    \E r \in 1..Len(runs), found \in BOOLEAN :
        /\ runs[r].pc = "download"
        /\ runs[r].calls.download <= 1
        /\ LET run == Call(runs[r], "download")
           IN  IF found
               THEN Goto(r, [run EXCEPT !.pdf_path = "/tmp/file"], "extract")
               ELSE IF run.calls.download <= 1
               THEN Goto(r, run, "download")
               ELSE Finish(r, [run EXCEPT !.pdf_path = "None"], "failed",
                           Msg("Failed to download PDF", ""))
        /\ UNCHANGED <<uploads, resp>>

\* variant: no return after the 'failed' update of a failed download
DownloadNoReturn ==
    \E r \in 1..Len(runs), found \in BOOLEAN :
        /\ runs[r].pc = "download"
        /\ LET run == Call(runs[r], "download")
           IN  IF found
               THEN Goto(r, [run EXCEPT !.pdf_path = "/tmp/file"], "extract")
               ELSE /\ runs' = [runs EXCEPT ![r] =
                                  [run EXCEPT !.pdf_path = "None", !.pc = "extract",
                                              !.writes = Append(@,
                                                  Write("failed", Msg("Failed to download PDF", "")))]]
                    /\ \E ok \in BOOLEAN :
                           db' = update_processing_status(db, run.file_url, run.email,
                                     "failed", Msg("Failed to download PDF", ""), ok)
        /\ UNCHANGED <<uploads, resp>>

Download ==
    \E r \in 1..Len(runs), found \in BOOLEAN :
        /\ runs[r].pc = "download"
        /\ LET run == Call(runs[r], "download")
           IN  IF found
               THEN Goto(r, [run EXCEPT !.pdf_path = "/tmp/file"], "extract")
               ELSE Finish(r, [run EXCEPT !.pdf_path = "None"], "failed",
                           Msg("Failed to download PDF", ""))
        /\ UNCHANGED <<uploads, resp>>

ExtractText ==
    \E r \in 1..Len(runs), text \in PipelineTexts :
        /\ runs[r].pc = "extract"
        /\ LET run == [Call(runs[r], "extract") EXCEPT !.text = text]
           IN  IF text # <<>>
               THEN Goto(r, run, "parse")
               ELSE Finish(r, run, "failed", Msg("Failed to extract text from PDF", ""))
        /\ UNCHANGED <<uploads, resp>>

\* variant: the parsed record is not tested for emptiness
ParseNoCheck ==
    \E r \in 1..Len(runs), fault \in ParseFaults :
        /\ runs[r].pc = "parse"
        /\ LET data == ParsedTexts[runs[r].text][fault]
               run  == [Call(runs[r], "parse") EXCEPT !.data = data]
           IN  Goto(r, run, "evaluate")
        /\ UNCHANGED <<uploads, resp>>

Parse ==
    \E r \in 1..Len(runs), fault \in ParseFaults :
        /\ runs[r].pc = "parse"
        /\ LET data == ParsedTexts[runs[r].text][fault]
               run  == [Call(runs[r], "parse") EXCEPT !.data = data]
           IN  IF data # EmptyDict
               THEN Goto(r, run, "evaluate")
               ELSE Finish(r, run, "failed", Msg("Failed to parse paystub data", ""))
        /\ UNCHANGED <<uploads, resp>>

Evaluate ==
    \E r \in 1..Len(runs), error \in ErrorDetails \cup {""} :
        /\ runs[r].pc = "evaluate"
        /\ LET run == Call(runs[r], "evaluate")
           IN  IF error = ""
               THEN Goto(r, [run EXCEPT !.compliance_results =
                                 perform_compliance_checks(run.data, run.user_input)],
                         "render")
               ELSE Raised(r, run, error)
        /\ UNCHANGED <<uploads, resp>>

Render ==
    \E r \in 1..Len(runs), error \in ErrorDetails \cup {""} :
        /\ runs[r].pc = "render"
        /\ LET run == Call(runs[r], "render")
           IN  IF error = ""
               THEN Goto(r, [run EXCEPT !.report_path = "/tmp/compliance_report.pdf"],
                         "mail")
               ELSE Raised(r, run, error)
        /\ UNCHANGED <<uploads, resp>>

\* variant: a mailer failure is logged and no status is written
SendEmailSilent ==
    \E r \in 1..Len(runs), sent \in BOOLEAN :
        /\ runs[r].pc = "mail"
        /\ LET run == [Call(runs[r], "mail") EXCEPT
                           !.email_sent = IF sent THEN "True" ELSE "False"]
           IN  IF sent
               THEN Finish(r, run, "completed",
                           Msg("Paystub processing completed successfully", ""))
               ELSE Goto(r, run, "done")
        /\ UNCHANGED <<uploads, resp>>

\* variant: the test of email_sent inverted
SendEmailInverted ==
    \E r \in 1..Len(runs), sent \in BOOLEAN :
        /\ runs[r].pc = "mail"
        /\ LET run == [Call(runs[r], "mail") EXCEPT
                           !.email_sent = IF sent THEN "True" ELSE "False"]
           IN  IF ~sent
               THEN Finish(r, run, "completed",
                           Msg("Paystub processing completed successfully", ""))
               ELSE Finish(r, run, "completed_with_errors",
                           Msg("Processing completed but failed to send email", ""))
        /\ UNCHANGED <<uploads, resp>>

\* variant: send_email_report without its except clause, a mailer failure
\* reaches the except clause of process_paystub_async
SendEmailRaises ==
    \E r \in 1..Len(runs), sent \in BOOLEAN :
        /\ runs[r].pc = "mail"
        /\ LET run == Call(runs[r], "mail")
           IN  IF sent
               THEN Finish(r, [run EXCEPT !.email_sent = "True"], "completed",
                           Msg("Paystub processing completed successfully", ""))
               ELSE Raised(r, run, "boom")
        /\ UNCHANGED <<uploads, resp>>

\* send_email_report returns True or False (it catches what mail.send raises)
SendEmail ==
    \E r \in 1..Len(runs), sent \in BOOLEAN :
        /\ runs[r].pc = "mail"
        /\ LET run == [Call(runs[r], "mail") EXCEPT
                           !.email_sent = IF sent THEN "True" ELSE "False"]
           IN  IF sent
               THEN Finish(r, run, "completed",
                           Msg("Paystub processing completed successfully", ""))
               ELSE Finish(r, run, "completed_with_errors",
                           Msg("Processing completed but failed to send email", ""))
        /\ UNCHANGED <<uploads, resp>>

(***************************************************************************)
(* POST /upload-paystub (server_new.py).  The blob is named                *)
(* paystub_uploads/<uuid4>_<file name>: a name no earlier upload has.      *)
(***************************************************************************)
UploadRejections ==
    {ErrorResp("upload-paystub", 400, "No file part"),
     ErrorResp("upload-paystub", 400, "No selected file")}

\* the names no blob has yet and no request can have mentioned
FreshFiles ==
    {f \in Files \ uploads :
        \A r \in 1..Len(runs) : f # runs[r].file_url[Len(runs[r].file_url)]}

UploadRejected ==
    /\ \E e \in UploadRejections : resp' = e
    /\ UNCHANGED <<db, runs, uploads>>

\* the blob is stored, 'uploaded' is recorded with the address of the form as
\* it came, and the answer names the blob
Upload ==
    \E f \in FreshFiles, email \in Emails, ok \in BOOLEAN :
        LET filename == <<"paystub_uploads", f>>
        IN  /\ uploads' = uploads \cup {f}
            /\ db' = update_processing_status(db, filename, email, "uploaded",
                         Msg("File uploaded, pending processing", ""), ok)
            /\ resp' = Resp("upload-paystub", 200, "uploaded",
                            Msg("File uploaded successfully", ""), filename)
            /\ UNCHANGED runs

\* storage_service.upload_file raises: before the blob is stored, or after it
\* (generate_signed_url); the answer is a 500 and no status is written
UploadFailed ==
    \E f \in FreshFiles, stored \in BOOLEAN :
        /\ uploads' = IF stored THEN uploads \cup {f} ELSE uploads
        /\ resp' = ErrorResp("upload-paystub", 500, "upload failed")
        /\ UNCHANGED <<db, runs>>

(***************************************************************************)
(* GET /check-status (server_new.py).  read = FALSE: the store raises.     *)
(***************************************************************************)
\* variant: the document id taken from the file_url as it comes
check_status_raw(store, file_url, read) ==
    IF FalsyUrl(file_url)
    THEN ErrorResp("check-status", 400, "file_url is required")
    ELSE IF ~read
    THEN ErrorResp("check-status", 500, "Failed to check processing status")
    ELSE LET doc == store[legacy_generate_document_id(file_url)]
         IN  IF ~doc.exists
             THEN Resp("check-status", 404, "unknown",
                       Msg("No processing status found for this file", ""), NoneUrl)
             ELSE Resp("check-status", 200, doc.status, doc.message, doc.file_url)

check_status(store, file_url, read) ==
    IF FalsyUrl(file_url)
    THEN ErrorResp("check-status", 400, "file_url is required")
    ELSE IF ~read
    THEN ErrorResp("check-status", 500, "Failed to check processing status")
    ELSE LET doc == store[generate_document_id(file_url)]
         IN  IF ~doc.exists
             THEN Resp("check-status", 404, "unknown",
                       Msg("No processing status found for this file", ""), NoneUrl)
             ELSE Resp("check-status", 200, doc.status, doc.message, doc.file_url)

\* variant: a query for a file_url without a record creates one
CheckStatusRecords ==
    /\ \E file_url \in Handles \cup {NoneUrl, EmptyUrl}, read \in BOOLEAN :
           /\ resp' = To(file_url, check_status(db, file_url, read))
           /\ db' = IF resp'.status = "unknown"
                    THEN update_processing_status(db, file_url, "", "unknown", NoMsg, TRUE)
                    ELSE db
    /\ UNCHANGED <<runs, uploads>>

CheckStatus ==
    /\ \E file_url \in Handles \cup {NoneUrl, EmptyUrl}, read \in BOOLEAN :
           resp' = To(file_url, check_status(db, file_url, read))
    /\ UNCHANGED <<db, runs, uploads>>

Pipeline ==
    \/ Download
    \/ ExtractText
    \/ Parse
    \/ Evaluate
    \/ Render
    \/ SendEmail

(***************************************************************************)
(* Spec: the service of server_new.py around one accepted submission:      *)
(* every request and its response, the upload, the submission, its thread. *)
(***************************************************************************)
Next ==
    \/ UploadRejected
    \/ Upload
    \/ UploadFailed
    \/ ProcessRejected
    \/ (runs = <<>> /\ ProcessAccepted)
    \/ (runs = <<>> /\ ProcessNotStarted)
    \/ ProcessRespond
    \/ Pipeline
    \/ CheckStatus

Spec == Init /\ [][Next]_vars

(***************************************************************************)
(* SpecTwo: two accepted submissions of server_new.py, their threads and   *)
(* their responses in any interleaving.                                    *)
(***************************************************************************)
NextTwo ==
    \/ (Len(runs) <= 1 /\ ProcessAccepted)
    \/ (Len(runs) <= 1 /\ ProcessNotStarted)
    \/ ProcessRespond
    \/ Pipeline

SpecTwo == Init /\ [][NextTwo]_vars

(***************************************************************************)
(* The process exits and is started again.  The pipeline threads are       *)
(* daemon threads and there is no queue of accepted work: a run that has   *)
(* not ended is gone, and a request not yet answered gets no answer.  The  *)
(* collection is Firestore's and stays.                                    *)
(***************************************************************************)
NoAnswer == ErrorResp("process-paystub", 0, "connection closed")

Restart ==
    /\ \E r \in 1..Len(runs) : runs[r].pc \notin {"done", "not_started", "killed"}
    /\ runs' = [r \in 1..Len(runs) |->
                   IF runs[r].pc \in {"done", "not_started", "killed"}
                   THEN runs[r]
                   ELSE [runs[r] EXCEPT !.pc = "killed",
                                        !.response = IF @ = NoResp THEN NoAnswer ELSE @]]
    /\ UNCHANGED <<db, uploads, resp>>

(***************************************************************************)
(* SpecLive: one accepted submission of server_new.py, its thread, and the *)
(* restart of the process.  Every collaborator call returns: a pipeline    *)
(* step that can be taken is taken eventually.                             *)
(***************************************************************************)
NextLive ==
    \/ (runs = <<>> /\ ProcessAccepted)
    \/ (runs = <<>> /\ ProcessNotStarted)
    \/ ProcessRespond
    \/ Pipeline
    \/ Restart

SpecLive == Init /\ [][NextLive]_vars /\ WF_vars(Pipeline)

(***************************************************************************)
(* SpecParse: parse_paystub_data applied to each text of up to MaxLines    *)
(* lines, the lines drawn from ParseLines: every label the patterns look   *)
(* for and one they do not, values with a thousands separator, with        *)
(* blanks around a name, and one that [\d.]+ captures and float() refuses. *)
(***************************************************************************)
MaxLines == 2

ParseLines ==
    {Line("EMPLOYEE NAME:", <<"A", "l">>),
     Line("NAME:", <<"B", "o", " ">>),
     Line("EMPLOYEE:", <<"C">>),
     Line("NET PAY:", <<"6", "4", "0", ".", "0", "0">>),
     Line("NET PAY", <<"1", ",", "0", "0", "0", ".", "0", "0">>),
     Line("TOTAL NET PAY:", <<"7", "0", "0", ".", "0", "0">>),
     Line("TOTAL HOURS:", <<"1", ".", "2", ".", "3">>),
     Line("HOURS WORKED:", <<"4", "5">>),
     Line("HOURS:", <<"4", "0", ".", "5">>),
     Line("GROSS PAY:", <<"8", "0", "0", ".", "0", "0">>),
     Line("GROSS EARNINGS:", <<"0", ".", "0", "0">>),
     Line("TOTAL GROSS:", <<"9", "0", "0", ".", "0", "0">>),
     Line("MEMO:", <<"x">>)}

ParseTexts == UNION {[1..n -> ParseLines] : n \in 0..MaxLines}

InitParse ==
    /\ db = [k \in DocIds |-> NoDoc]
    /\ \E text \in ParseTexts :
           runs = <<[NewRun(<<"x.pdf">>, GoodEmail, UserInput(FALSE, 0), "parse_text", <<>>)
                        EXCEPT !.text = text]>>
    /\ uploads = {}
    /\ resp = NoResp

\* data = processor.parse_paystub_data(text), nothing raising inside it
ParseText ==
    /\ \E r \in 1..Len(runs) :
           /\ runs[r].pc = "parse_text"
           /\ runs' = [runs EXCEPT ![r] =
                          [Call(runs[r], "parse") EXCEPT
                               !.data = parse_paystub_data(runs[r].text, 0),
                               !.pc = "parsed"]]
    /\ UNCHANGED <<db, uploads, resp>>

SpecParse == InitParse /\ [][ParseText]_vars

(***************************************************************************)
(* server.py: the older service.  process_paystub runs the whole pipeline  *)
(* inside the request and answers when it is over; the document id is the  *)
(* md5 of the file_url as it comes.                                        *)
(***************************************************************************)
\* MINIMUM_WAGE = 15.0 (the default of the environment variable), in hundredths
LEGACY_MINIMUM_WAGE == 1500

\* generate_document_id(None) raises inside the try of update_processing_status
legacy_update_processing_status(store, file_url, email, status, message, ok) ==
    IF ok /\ file_url # NoneUrl
    THEN [store EXCEPT ![legacy_generate_document_id(file_url)] =
              Doc(file_url, email, status, message)]
    ELSE store

\* data.get(key, 0) of a key parse_paystub_data set: a float or None
LegacyGet(data, key) ==
    IF key \in DOMAIN data THEN data[key] ELSE NumValue(0)

\* perform_compliance_checks of server.py: raised when a comparison or a
\* division meets None
legacy_perform_compliance_checks(data) ==
    LET net_pay     == LegacyGet(data, "net_pay")
        total_hours == LegacyGet(data, "total_hours")
        gross_pay   == LegacyGet(data, "gross_pay")
        isNone(v)   == v.kind # "float"
        rated       == net_pay.num > 0 /\ total_hours.num > 0
        over        == total_hours.num > StandardWeek
        num         == IF over THEN gross_pay.num ELSE net_pay.num
        raised      ==
            \/ isNone(net_pay)
            \/ net_pay.num > 0 /\ isNone(total_hours)
            \/ net_pay.num > 0 /\ isNone(gross_pay)
    IN  IF raised
        THEN [raised |-> TRUE, checks |-> NoChecks.checks]
        ELSE [raised |-> FALSE,
              checks |->
                  [minimum_wage |-> rated /\ num * 100 >= LEGACY_MINIMUM_WAGE * total_hours.num,
                   overtime_compliant |->
                       rated /\ check_overtime_compliance(total_hours.num, num,
                                                          total_hours.num, gross_pay.num),
                   total_compensation_valid |-> net_pay.num > 0 /\ gross_pay.num > 0,
                   long_shift_additional_pay_violation |-> FALSE]]

\* a return of process_paystub after a status update
LegacyFinish(r, run, status, message, response) ==
    /\ runs' = [runs EXCEPT ![r] =
                  [run EXCEPT !.pc = "done", !.response = response,
                              !.writes = Append(@, Write(status, message))]]
    /\ \E ok \in BOOLEAN :
           db' = legacy_update_processing_status(db, run.file_url, run.email,
                                                 status, message, ok)

\* the except clause of process_paystub, file_url and email being bound
LegacyRaised(r, run, detail) ==
    LegacyFinish(r, [run EXCEPT !.error = detail], "failed", Msg("", detail),
                 ErrorResp("process-paystub", 500, "Processing failed"))

\* the requests that pass "not data or file_url not in data or email not in data"
LegacyRequests ==
    [file_url : Handles \cup {NoneUrl, EmptyUrl}, email : Emails \cup {NoneEmail}]

\* no JSON object, or one without both keys: answered with a 400; a body that
\* get_json refuses: answered with a 500; no status is written
LegacyRejected ==
    /\ \E e \in {ErrorResp("process-paystub", 400, "Missing required fields"),
                 ErrorResp("process-paystub", 500, "Processing failed")} : resp' = e
    /\ UNCHANGED <<db, runs, uploads>>

\* both keys are there: 'processing' is recorded
LegacyAccepted ==
    /\ runs = <<>>
    /\ \E req \in LegacyRequests, ok \in BOOLEAN :
         LET message == Msg("Started processing paystub", "")
         IN  /\ runs' = Append(runs, NewRun(req.file_url, req.email, UserInput(FALSE, 0),
                                            "validate", <<Write("processing", message)>>))
             /\ db' = legacy_update_processing_status(db, req.file_url, req.email,
                                                      "processing", message, ok)
    /\ UNCHANGED <<uploads, resp>>

\* email_validator raises on None, rejects or accepts a string
LegacyValidate ==
    \E r \in 1..Len(runs) :
        /\ runs[r].pc = "validate"
        /\ LET run == runs[r]
           IN  IF run.email = NoneEmail
               THEN LegacyRaised(r, run, "AttributeError")
               ELSE IF validate_email(run.email) # ""
               THEN LegacyFinish(r, run, "failed", Msg(validate_email(run.email), ""),
                                 ErrorResp("process-paystub", 400, validate_email(run.email)))
               ELSE Goto(r, run, "legacy_download")
        /\ UNCHANGED <<uploads, resp>>

LegacyDownload ==
    \E r \in 1..Len(runs), found \in BOOLEAN :
        /\ runs[r].pc = "legacy_download"
        /\ LET run == Call(runs[r], "download")
           IN  IF found /\ ~FalsyUrl(run.file_url)
               THEN Goto(r, [run EXCEPT !.pdf_path = "/tmp/file"], "legacy_extract")
               ELSE LegacyFinish(r, [run EXCEPT !.pdf_path = "None"], "failed",
                                 Msg("PDF download failed", ""),
                                 ErrorResp("process-paystub", 400, "PDF download failed from GCS"))
        /\ UNCHANGED <<uploads, resp>>

LegacyExtractText ==
    \E r \in 1..Len(runs), text \in PipelineTexts :
        /\ runs[r].pc = "legacy_extract"
        /\ LET run == [Call(runs[r], "extract") EXCEPT !.text = text]
           IN  IF text # <<>>
               THEN Goto(r, run, "legacy_parse")
               ELSE LegacyFinish(r, run, "failed", Msg("Text extraction failed", ""),
                                 ErrorResp("process-paystub", 400, "Text extraction failed"))
        /\ UNCHANGED <<uploads, resp>>

\* parse_paystub_data of server.py has the code of server_new.py's
LegacyParse ==
    \E r \in 1..Len(runs), fault \in ParseFaults :
        /\ runs[r].pc = "legacy_parse"
        /\ LET data == ParsedTexts[runs[r].text][fault]
               run  == [Call(runs[r], "parse") EXCEPT !.data = data]
           IN  IF data # EmptyDict
               THEN Goto(r, run, "legacy_evaluate")
               ELSE LegacyFinish(r, run, "failed", Msg("Unable to parse paystub data", ""),
                                 ErrorResp("process-paystub", 400, "Unable to parse pay stub data"))
        /\ UNCHANGED <<uploads, resp>>

LegacyEvaluate ==
    \E r \in 1..Len(runs) :
        /\ runs[r].pc = "legacy_evaluate"
        /\ LET run     == Call(runs[r], "evaluate")
               results == legacy_perform_compliance_checks(run.data)
           IN  IF results.raised
               THEN LegacyRaised(r, run, "TypeError")
               ELSE Goto(r, [run EXCEPT !.compliance_results.checks = results.checks],
                         "legacy_render")
        /\ UNCHANGED <<uploads, resp>>

\* generate_compliance_report raises, or returns the path of a file that is
\* there or not
LegacyRender ==
    \E r \in 1..Len(runs), error \in ErrorDetails \cup {""}, exists \in BOOLEAN :
        /\ runs[r].pc = "legacy_render"
        /\ LET run == Call(runs[r], "render")
           IN  IF error # ""
               THEN LegacyRaised(r, run, error)
               ELSE IF ~exists
               THEN LegacyFinish(r, [run EXCEPT !.report_path = "missing"], "failed",
                                 Msg("Failed to generate report", ""),
                                 ErrorResp("process-paystub", 500,
                                           "Failed to generate the compliance report"))
               ELSE Goto(r, [run EXCEPT !.report_path = "/tmp/compliance_report.pdf"],
                         "legacy_mail")
        /\ UNCHANGED <<uploads, resp>>

LegacySendEmail ==
    \E r \in 1..Len(runs), sent \in BOOLEAN :
        /\ runs[r].pc = "legacy_mail"
        /\ LET run == [Call(runs[r], "mail") EXCEPT
                           !.email_sent = IF sent THEN "True" ELSE "False"]
           IN  IF sent
               THEN LegacyFinish(r, run, "completed", Msg("Report sent via email", ""),
                                 Resp("process-paystub", 200, "completed",
                                      Msg("Paystub processed and report sent successfully.", ""),
                                      NoneUrl))
               ELSE LegacyFinish(r, run, "failed", Msg("Failed to send email", ""),
                                 ErrorResp("process-paystub", 500, "Failed to send email"))
        /\ UNCHANGED <<uploads, resp>>

\* GET /check-status of server.py
legacy_check_status(store, file_url, read) ==
    IF FalsyUrl(file_url)
    THEN ErrorResp("check-status", 400, "Missing file_url parameter")
    ELSE IF ~read
    THEN ErrorResp("check-status", 500, "Failed to check status")
    ELSE LET doc == store[legacy_generate_document_id(file_url)]
         IN  IF ~doc.exists
             THEN Resp("check-status", 200, "unknown",
                       Msg("No status found for this file", ""), file_url)
             ELSE Resp("check-status", 200, doc.status, doc.message, file_url)

LegacyCheckStatus ==
    /\ \E file_url \in Handles \cup {NoneUrl, EmptyUrl}, read \in BOOLEAN :
           resp' = To(file_url, legacy_check_status(db, file_url, read))
    /\ UNCHANGED <<db, runs, uploads>>

(***************************************************************************)
(* SpecLegacy: server.py around one process-paystub request.               *)
(***************************************************************************)
NextLegacy ==
    \/ LegacyRejected
    \/ LegacyAccepted
    \/ LegacyValidate
    \/ LegacyDownload
    \/ LegacyExtractText
    \/ LegacyParse
    \/ LegacyEvaluate
    \/ LegacyRender
    \/ LegacySendEmail
    \/ LegacyCheckStatus

SpecLegacy == Init /\ [][NextLegacy]_vars

(***************************************************************************)
(* SpecChecks: perform_compliance_checks of server_new.py and of server.py *)
(* applied to each FieldRecord parse_paystub_data can return (a field is   *)
(* None, zero or positive; the hours at, under or over the standard week)  *)
(* and, for server_new.py, each manual shift input.                        *)
(***************************************************************************)
FieldValues ==
    [employee_name |-> {NoneValue, StrValue(<<"A", "l">>)},
     net_pay       |-> {NoneValue, NumValue(0), NumValue(64000), NumValue(66000)},
     total_hours   |-> {NoneValue, NumValue(0), NumValue(4000), NumValue(4500)},
     gross_pay     |-> {NoneValue, NumValue(0), NumValue(72000), NumValue(80000),
                        NumValue(90000), NumValue(120000)}]

FieldRecords ==
    {data \in [{Keys[i] : i \in 1..Len(Keys)} ->
                   UNION {FieldValues[Keys[i]] : i \in 1..Len(Keys)}] :
        \A i \in 1..Len(Keys) : data[Keys[i]] \in FieldValues[Keys[i]]}

\* the largest exceeded_shifts_count evaluated
MaxCount == 3

ShiftInputs == {UserInput(exceeded, count) : exceeded \in BOOLEAN, count \in 0..MaxCount}

InitChecks ==
    /\ db = [k \in DocIds |-> NoDoc]
    /\ \E data \in FieldRecords, user_input \in ShiftInputs :
           runs = <<[NewRun(<<"x.pdf">>, GoodEmail, user_input, "evaluate_record", <<>>)
                        EXCEPT !.data = data]>>
    /\ uploads = {}
    /\ resp = NoResp

\* compliance_results = processor.perform_compliance_checks(data, user_input)
EvaluateRecord ==
    /\ \E r \in 1..Len(runs) :
           /\ runs[r].pc = "evaluate_record"
           /\ runs' = [runs EXCEPT ![r] =
                          [Call(runs[r], "evaluate") EXCEPT
                               !.compliance_results =
                                   perform_compliance_checks(runs[r].data, runs[r].user_input),
                               !.pc = "evaluated"]]
    /\ UNCHANGED <<db, uploads, resp>>

\* server.py: compliance_results = processor.perform_compliance_checks(data),
\* or the TypeError it raises
LegacyEvaluateRecord ==
    /\ \E r \in 1..Len(runs) :
           /\ runs[r].pc = "evaluate_record"
           /\ LET results == legacy_perform_compliance_checks(runs[r].data)
              IN  runs' = [runs EXCEPT ![r] =
                              IF results.raised
                              THEN [Call(runs[r], "evaluate") EXCEPT
                                        !.error = "TypeError", !.pc = "legacy_raised"]
                              ELSE [Call(runs[r], "evaluate") EXCEPT
                                        !.compliance_results.checks = results.checks,
                                        !.pc = "legacy_evaluated"]]
    /\ UNCHANGED <<db, uploads, resp>>

NextChecks == EvaluateRecord \/ LegacyEvaluateRecord

SpecChecks == InitChecks /\ [][NextChecks]_vars

(***************************************************************************)
(* SpecReport: the "Gross Pay:" and "Net Pay:" lines generate_compliance_  *)
(* report writes for a FieldRecord, in server_new.py and in server.py.  A  *)
(* line is the sequence of characters after the caption.                   *)
(***************************************************************************)
RECURSIVE DigitsOf(_)
\* the decimal digits of a natural number
DigitsOf(n) ==
    IF n < 10 THEN <<Digits[n + 1]>> ELSE DigitsOf(n \div 10) \o <<Digits[(n % 10) + 1]>>

\* f"{value:.2f}" of an amount held in hundredths
Format2f(n) ==
    DigitsOf(n \div 100) \o <<".">> \o <<Digits[((n % 100) \div 10) + 1], Digits[(n % 10) + 1]>>

\* str(value) of a float held in hundredths: the shortest decimal, one
\* decimal place at least
StrFloat(n) ==
    DigitsOf(n \div 100) \o <<".">> \o
        (IF n % 10 = 0 THEN <<Digits[((n % 100) \div 10) + 1]>>
         ELSE <<Digits[((n % 100) \div 10) + 1], Digits[(n % 10) + 1]>>)

NotAvailable == <<"N", "/", "A">>

StrNone == <<"N", "o", "n", "e">>

\* server_new.py: value = employee_data.get(key, 'N/A'), formatted with
\* "$" and .2f when a number, with "$" alone when anything else but 'N/A'
render_currency(data, key) ==
    IF key \notin DOMAIN data THEN NotAvailable
    ELSE IF data[key].kind = "float" THEN <<"$">> \o Format2f(data[key].num)
    ELSE <<"$">> \o StrNone

\* server.py: f"${employee_data.get(key, 'N/A')}"
legacy_render_currency(data, key) ==
    IF key \notin DOMAIN data THEN <<"$">> \o NotAvailable
    ELSE IF data[key].kind = "float" THEN <<"$">> \o StrFloat(data[key].num)
    ELSE <<"$">> \o StrNone

ReportAmounts == {NoneValue, NumValue(0), NumValue(64000), NumValue(64050), NumValue(123456)}

\* the records parse_paystub_data returns for a non-empty text, and {}
ReportRecords ==
    {EmptyDict} \cup
    {[employee_name |-> name, net_pay |-> net, total_hours |-> hours, gross_pay |-> gross] :
        name \in {NoneValue, StrValue(<<"A", "l">>)}, net \in ReportAmounts,
        hours \in {NoneValue, NumValue(4000)}, gross \in ReportAmounts}

NoReport == [gross_pay |-> <<>>, net_pay |-> <<>>]

InitReport ==
    /\ db = [k \in DocIds |-> NoDoc]
    /\ \E data \in ReportRecords :
           runs = <<[NewRun(<<"x.pdf">>, GoodEmail, UserInput(FALSE, 0), "render_record", <<>>)
                        EXCEPT !.data = data] @@ [report |-> NoReport]>>
    /\ uploads = {}
    /\ resp = NoResp

\* report_path = processor.generate_compliance_report(data, compliance_results, user_input)
RenderRecord ==
    /\ \E r \in 1..Len(runs) :
           /\ runs[r].pc = "render_record"
           /\ runs' = [runs EXCEPT ![r] =
                          [Call(runs[r], "render") EXCEPT
                               !.report = [gross_pay |-> render_currency(runs[r].data, "gross_pay"),
                                           net_pay   |-> render_currency(runs[r].data, "net_pay")],
                               !.pc = "rendered"]]
    /\ UNCHANGED <<db, uploads, resp>>

\* server.py: report_path = processor.generate_compliance_report(data, compliance_results)
LegacyRenderRecord ==
    /\ \E r \in 1..Len(runs) :
           /\ runs[r].pc = "render_record"
           /\ runs' = [runs EXCEPT ![r] =
                          [Call(runs[r], "render") EXCEPT
                               !.report = [gross_pay |-> legacy_render_currency(runs[r].data, "gross_pay"),
                                           net_pay   |-> legacy_render_currency(runs[r].data, "net_pay")],
                               !.pc = "legacy_rendered"]]
    /\ UNCHANGED <<db, uploads, resp>>

NextReport == RenderRecord \/ LegacyRenderRecord

SpecReport == InitReport /\ [][NextReport]_vars

(***************************************************************************)
(* SpecScanned: process_paystub_async from extract_pdf_text on, the PDF    *)
(* downloaded, with every text of ParseTexts as what the extractor may     *)
(* return.                                                                 *)
(***************************************************************************)
InitScanned ==
    /\ \E ok \in BOOLEAN :
           db = update_processing_status([k \in DocIds |-> NoDoc], <<"x.pdf">>, GoodEmail,
                    "processing", Msg("Starting paystub processing", ""), ok)
    /\ runs = <<[Call(NewRun(<<"x.pdf">>, GoodEmail, UserInput(FALSE, 0), "extract",
                             <<Write("processing", Msg("Starting paystub processing", ""))>>),
                      "download")
                    EXCEPT !.pdf_path = "/tmp/file"]>>
    /\ uploads = {}
    /\ resp = NoResp

\* text = processor.extract_pdf_text(pdf_path)
ExtractAnyText ==
    \E r \in 1..Len(runs), text \in ParseTexts :
        /\ runs[r].pc = "extract"
        /\ LET run == [Call(runs[r], "extract") EXCEPT !.text = text]
           IN  IF text # <<>>
               THEN Goto(r, run, "parse")
               ELSE Finish(r, run, "failed", Msg("Failed to extract text from PDF", ""))
        /\ UNCHANGED <<uploads, resp>>

\* variant: a record without any value is taken for a parse failure
ParseAnyTextStrict ==
    \E r \in 1..Len(runs), fault \in ParseFaults :
        /\ runs[r].pc = "parse"
        /\ LET data == parse_paystub_data(runs[r].text, fault)
               run  == [Call(runs[r], "parse") EXCEPT !.data = data]
           IN  IF \E key \in DOMAIN data : data[key] # NoneValue
               THEN Goto(r, run, "evaluate")
               ELSE Finish(r, run, "failed", Msg("Failed to parse paystub data", ""))
        /\ UNCHANGED <<uploads, resp>>

\* data = processor.parse_paystub_data(text), and "if not data"
ParseAnyText ==
    \E r \in 1..Len(runs), fault \in ParseFaults :
        /\ runs[r].pc = "parse"
        /\ LET data == parse_paystub_data(runs[r].text, fault)
               run  == [Call(runs[r], "parse") EXCEPT !.data = data]
           IN  IF data # EmptyDict
               THEN Goto(r, run, "evaluate")
               ELSE Finish(r, run, "failed", Msg("Failed to parse paystub data", ""))
        /\ UNCHANGED <<uploads, resp>>

NextScanned == ExtractAnyText \/ ParseAnyText \/ Evaluate \/ Render \/ SendEmail

SpecScanned == InitScanned /\ [][NextScanned]_vars

(***************************************************************************)
(* Properties.                                                             *)
(***************************************************************************)
RunIds == 1..Len(runs)

LastWrite(run) == run.writes[Len(run.writes)]

Ended(run) == run.pc \in {"done", "not_started"}

\* the record check-status reads for the file_url of a run
Stored(run) == db[generate_document_id(run.file_url)]

\* C1: for one submission, the first update_processing_status call is
\* 'processing' and is made at acceptance; the pipeline makes at most one more
\* call, with a terminal status, and that call ends it; the persisted status of
\* the job is terminal only once the submission has ended, and is then the
\* terminal status the submission wrote.
C1_StatusOrder ==
    \A r \in RunIds :
        LET run == runs[r]
        IN  /\ Len(run.writes) \in {1, 2}
            /\ run.writes[1].status = "processing"
            /\ Len(run.writes) = 2 <=> Ended(run)
            /\ Len(run.writes) = 2 => run.writes[2].status \in TerminalStatuses
            /\ Stored(run).exists =>
                   \/ Stored(run).status \in {"uploaded", "processing"}
                   \/ /\ Ended(run)
                      /\ Stored(run).status = run.writes[2].status

\* an uploaded file was submitted, its pipeline ended and the terminal status
\* is the one persisted
C1_Witness ==
    \E r \in RunIds :
        /\ uploads # {}
        /\ runs[r].pc = "done"
        /\ Len(runs[r].writes) = 2
        /\ Stored(runs[r]).exists
        /\ Stored(runs[r]).status = "completed_with_errors"

\* C2: a run whose download failed, whose extracted text is empty or whose
\* parse returned no record has ended with 'failed' as its last status update,
\* has called neither evaluation nor report generation nor the mailer, and the
\* persisted status of its job is no success status.
C2_EarlyFailure ==
    \A r \in RunIds :
        LET run == runs[r]
        IN  (\/ run.pdf_path = "None"
             \/ run.calls.extract > 0 /\ run.text = <<>>
             \/ run.calls.parse > 0 /\ run.data = EmptyDict)
            => /\ run.pc = "done"
               /\ LastWrite(run).status = "failed"
               /\ run.calls.evaluate = 0
               /\ run.calls.render = 0
               /\ run.calls.mail = 0
               /\ Stored(run).exists =>
                      Stored(run).status \in {"uploaded", "processing", "failed"}

\* text was extracted, the parse returned no record, and 'failed' is persisted
C2_Witness ==
    \E r \in RunIds :
        /\ runs[r].text # <<>>
        /\ runs[r].calls.parse = 1
        /\ runs[r].data = EmptyDict
        /\ runs[r].pc = "done"
        /\ Stored(runs[r]).exists
        /\ Stored(runs[r]).status = "failed"

\* C3: a run whose steps before the mailer all succeeded and whose mailer
\* reported failure has 'completed_with_errors' as its last status update.
C3_MailerFailure ==
    \A r \in RunIds :
        (runs[r].pc = "done" /\ runs[r].email_sent = "False")
            => LastWrite(runs[r]).status = "completed_with_errors"

\* C4: a run whose steps all succeeded, the mailer included, has ended; its
\* status updates are 'processing' then 'completed', and the persisted status
\* of its job is no failure status.
C4_AllSucceed ==
    \A r \in RunIds :
        LET run == runs[r]
        IN  (/\ run.pdf_path = "/tmp/file"
             /\ run.text # <<>>
             /\ run.data # EmptyDict
             /\ run.report_path = "/tmp/compliance_report.pdf"
             /\ run.error = ""
             /\ run.email_sent = "True")
            => /\ run.pc = "done"
               /\ Len(run.writes) = 2
               /\ run.writes[1].status = "processing"
               /\ run.writes[2].status = "completed"
               /\ Stored(run).exists =>
                      Stored(run).status \in {"uploaded", "processing", "completed"}

\* every step succeeded and 'completed' is persisted
C4_Witness ==
    \E r \in RunIds :
        /\ runs[r].email_sent = "True"
        /\ runs[r].pc = "done"
        /\ Stored(runs[r]).exists
        /\ Stored(runs[r]).status = "completed"

\* C5: a run in which evaluation or report generation raised has ended with
\* 'failed' as its last status update, the message of that update carries the
\* error's text, the mailer was not called, and a persisted 'failed' status of
\* its job carries the error's text too.
C5_RaisedFails ==
    \A r \in RunIds :
        LET run == runs[r]
        IN  run.error # ""
            => /\ run.pc = "done"
               /\ run.calls.evaluate = 1
               /\ LastWrite(run).status = "failed"
               /\ LastWrite(run).message.detail = run.error
               /\ run.calls.mail = 0
               /\ (Stored(run).exists /\ Stored(run).status = "failed")
                      => Stored(run).message.detail = run.error

\* report generation raised and the error's text is persisted with 'failed'
C5_Witness ==
    \E r \in RunIds :
        /\ runs[r].error # ""
        /\ runs[r].calls.render = 1
        /\ Stored(runs[r]).exists
        /\ Stored(runs[r]).status = "failed"
        /\ Stored(runs[r]).message.detail = runs[r].error

\* C6: every accepted submission has made its 'processing' update; the response
\* of a submission whose thread was started can be returned at whatever step
\* its pipeline is; and a further submission can be accepted whatever the steps
\* of the pipelines that are running.
C6_NoWaiting ==
    /\ \A r \in RunIds : runs[r].writes[1].status = "processing"
    /\ \A r \in RunIds :
           runs[r].response = NoResp
               => ENABLED (ProcessRespond /\ runs'[r].response.code = 200)
    /\ Len(runs) <= 1 => ENABLED ProcessAccepted

\* the first submission was answered while its pipeline is at the mailer, and
\* a second one was accepted meanwhile and is not answered yet
C6_Witness ==
    /\ Len(runs) = 2
    /\ runs[1].pc = "mail"
    /\ runs[1].response.code = 200
    /\ runs[2].pc = "download"
    /\ runs[2].response = NoResp

\* C7: of two submissions with different file_urls, the document ids differ and
\* the record read for the one was not written for the other.
C7_DistinctHandles ==
    \A r1, r2 \in RunIds :
        runs[r1].file_url # runs[r2].file_url
            => /\ generate_document_id(runs[r1].file_url)
                      # generate_document_id(runs[r2].file_url)
               /\ Stored(runs[r2]).exists
                      => Stored(runs[r2]).file_url # runs[r1].file_url

\* C7, amended: of two submissions whose file_urls differ in their last two
\* components, the document ids differ and the record read for the one was not
\* written for the other.
C7_DistinctNormalized ==
    \A r1, r2 \in RunIds :
        Normalize(runs[r1].file_url) # Normalize(runs[r2].file_url)
            => /\ generate_document_id(runs[r1].file_url)
                      # generate_document_id(runs[r2].file_url)
               /\ Stored(runs[r2]).exists
                      => Stored(runs[r2]).file_url # runs[r1].file_url

\* two pipelines for file_urls with different last two components, each with
\* its own record: the first ended, the second still at work
C7_Witness ==
    /\ Len(runs) = 2
    /\ Normalize(runs[1].file_url) # Normalize(runs[2].file_url)
    /\ runs[1].pc = "done"
    /\ runs[2].pc = "extract"
    /\ Stored(runs[1]).exists /\ Stored(runs[1]).status = "failed"
    /\ Stored(runs[2]).exists /\ Stored(runs[2]).status = "processing"

\* C8: under server.py, a status query for a file_url with the last two
\* components of a submission's file_url reads the record the submission's own
\* file_url reads.
C8_NormalizedKey ==
    \A r \in RunIds, h \in Handles :
        (~FalsyUrl(runs[r].file_url) /\ Normalize(h) = Normalize(runs[r].file_url))
            => legacy_check_status(db, h, TRUE).status
                   = legacy_check_status(db, runs[r].file_url, TRUE).status

\* C9: whatever record is stored, the 'processing' update of a submission that
\* is accepted can become the stored record, and so can the terminal update of
\* a pipeline step that ends a run.
C9_LastWriteWins ==
    /\ Len(runs) <= 1 =>
           \A a \in Accepted :
               ENABLED (/\ ProcessAccepted
                        /\ db'[generate_document_id(a[1])]
                               = Doc(a[1], a[2], "processing",
                                     Msg("Starting paystub processing", "")))
    /\ \A r \in RunIds :
           ~Ended(runs[r]) =>
               ENABLED (/\ Pipeline
                        /\ runs'[r].pc = "done"
                        /\ db'[generate_document_id(runs[r].file_url)]
                               = Doc(runs[r].file_url, runs[r].email,
                                     LastWrite(runs'[r]).status,
                                     LastWrite(runs'[r]).message))

\* the first submission ended with 'completed', and the record now says
\* 'processing': the second submission of the same file_url overwrote it
C9_Witness ==
    /\ Len(runs) = 2
    /\ runs[1].file_url = runs[2].file_url
    /\ runs[1].pc = "done"
    /\ LastWrite(runs[1]).status = "completed"
    /\ runs[2].pc = "download"
    /\ Stored(runs[1]).exists
    /\ Stored(runs[1]).status = "processing"

\* C10: a step that answers a check-status request leaves the store as it is;
\* when it answers with a status, the request named a file_url, and the answer
\* is 'unknown' if the store has no record under the file_url's document id,
\* and the status and message of that record if it has; no other answer of it
\* says 'unknown'.
C10_CheckStatusReads ==
    [][(resp' # resp /\ resp'.route = "check-status")
          => /\ db' = db
             /\ resp'.code \in {200, 404} =>
                    /\ resp'.to \in Handles
                    /\ LET doc == db[generate_document_id(resp'.to)]
                       IN  /\ ~doc.exists => resp'.status = "unknown"
                           /\ doc.exists => /\ resp'.status = doc.status
                                            /\ resp'.message = doc.message
                                            /\ resp'.status # "unknown"
             /\ resp'.code \notin {200, 404} => resp'.status # "unknown"]_vars

\* a query answered with the 'completed' record of a three-component file_url
C10_Witness ==
    /\ resp.route = "check-status"
    /\ resp.code = 200
    /\ resp.status = "completed"
    /\ Len(resp.to) = 3
    /\ db[generate_document_id(resp.to)].exists
    /\ db[generate_document_id(resp.to)].status = "completed"

\* C11: under server.py, a process-paystub request answered 400 with the
\* validator's message for its address (the request failed input validation)
\* has left the status store as it was: no record exists.
C11_RejectedLeavesStore ==
    \A r \in RunIds :
        (/\ runs[r].email \in Emails
         /\ validate_email(runs[r].email) # ""
         /\ runs[r].response
                = ErrorResp("process-paystub", 400, validate_email(runs[r].email)))
            => \A k \in DocIds : ~db[k].exists

\* a collaborator of the run failed: the download, the text extractor, the
\* parser, the evaluator or the renderer (error), the mailer
Failure(run) ==
    \/ run.pdf_path = "None"
    \/ run.calls.extract > 0 /\ run.text = <<>>
    \/ run.calls.parse > 0 /\ run.data = EmptyDict
    \/ run.error # ""
    \/ run.email_sent = "False"

\* C12: a run in which a collaborator failed has ended, and the status of its
\* last update is the stored status of its job.
C12_FailureStored ==
    \A r \in RunIds :
        Failure(runs[r])
            => /\ runs[r].pc = "done"
               /\ Stored(runs[r]).exists
               /\ Stored(runs[r]).status = LastWrite(runs[r]).status

\* C12, amended: a run in which a collaborator failed has ended with a status
\* update of 'failed' or 'completed_with_errors' as its last one; the response
\* to its submission is pending or the 200 'processing' one; and the stored
\* record of its job is that update's, or, the store having refused it, a
\* record with an earlier status, or none.
C12_FailureHandled ==
    \A r \in RunIds :
        LET run == runs[r]
        IN  /\ run.pc \in {"download", "extract", "parse", "evaluate", "render",
                           "mail", "done", "not_started"}
            /\ Failure(run)
                => /\ run.pc = "done"
                   /\ LastWrite(run).status \in {"failed", "completed_with_errors"}
                   /\ run.response \in
                          {NoResp,
                           Resp("process-paystub", 200, "processing",
                                Msg("Paystub processing started", ""), run.file_url)}
                   /\ Stored(run).exists =>
                          \/ Stored(run).status \in {"uploaded", "processing"}
                          \/ Stored(run) = Doc(run.file_url, run.email,
                                               LastWrite(run).status,
                                               LastWrite(run).message)

\* the mailer failed, the store took the update and the submission was
\* answered with 'processing'
C12_Witness ==
    \E r \in RunIds :
        /\ runs[r].email_sent = "False"
        /\ runs[r].response.code = 200
        /\ runs[r].response.status = "processing"
        /\ Stored(runs[r]).exists
        /\ Stored(runs[r]).status = "completed_with_errors"

\* C13: in every run, each of download, text extraction, parsing, evaluation,
\* report generation and mail dispatch has been called at most once, and a step
\* is called only after the steps before it.
C13_SingleShot ==
    \A r \in RunIds :
        LET c == runs[r].calls
        IN  /\ \A step \in DOMAIN c : c[step] <= 1
            /\ c.extract <= c.download
            /\ c.parse <= c.extract
            /\ c.evaluate <= c.parse
            /\ c.render <= c.evaluate
            /\ c.mail <= c.render

\* two runs that each called the download once, found nothing and ended
C13_Witness ==
    /\ Len(runs) = 2
    /\ \A r \in RunIds :
           /\ runs[r].pc = "done"
           /\ runs[r].pdf_path = "None"
           /\ runs[r].calls.download = 1
           /\ runs[r].calls.extract = 0

\* C14: an accepted submission leads to a state where its run was killed by a
\* restart or has ended with a terminal status as its second and last update;
\* a killed run has made the 'processing' update alone, and no step changes a
\* killed run or the collection.
C14_TerminalOrKilled ==
    /\ (Len(runs) = 1)
           ~> (/\ Len(runs) = 1
               /\ \/ runs[1].pc = "killed"
                  \/ /\ Ended(runs[1])
                     /\ Len(runs[1].writes) = 2
                     /\ runs[1].writes[2].status \in TerminalStatuses)
    /\ [][\A r \in RunIds :
              runs[r].pc = "killed"
                  => /\ Len(runs[r].writes) = 1
                     /\ runs'[r] = runs[r]
                     /\ db' = db]_vars

\* the process restarted while the pipeline was at the mailer: the record says
\* 'processing'
C14_Witness ==
    \E r \in RunIds :
        /\ runs[r].pc = "killed"
        /\ runs[r].calls.render = 1
        /\ runs[r].calls.mail = 0
        /\ Stored(runs[r]).exists
        /\ Stored(runs[r]).status = "processing"

\* C15: after every step each stored status is one of the five, and a record
\* that the step changed is the document of an update_processing_status call
\* made in that step: the 'uploaded' one of an upload that stored a blob, or
\* one a submission or its pipeline added to its updates.
C15_StatusDomain ==
    [][\A k \in DocIds :
          /\ db'[k].exists => db'[k].status \in Statuses
          /\ db'[k] # db[k] =>
                \/ \E f \in uploads' \ uploads :
                       /\ k = generate_document_id(<<"paystub_uploads", f>>)
                       /\ db'[k].exists
                       /\ db'[k].status = "uploaded"
                       /\ db'[k].file_url = <<"paystub_uploads", f>>
                \/ \E r \in 1..Len(runs') :
                       LET run == runs'[r]
                           old == IF r <= Len(runs) THEN Len(runs[r].writes) ELSE 0
                       IN  /\ k = generate_document_id(run.file_url)
                           /\ \E i \in (old + 1)..Len(run.writes) :
                                  db'[k] = Doc(run.file_url, run.email,
                                               run.writes[i].status,
                                               run.writes[i].message)]_vars

\* an uploaded file not submitted and the ended job of another file_url, each
\* with its record
C15_Witness ==
    /\ uploads = {"x.pdf"}
    /\ db[generate_document_id(<<"paystub_uploads", "x.pdf">>)].exists
    /\ db[generate_document_id(<<"paystub_uploads", "x.pdf">>)].status = "uploaded"
    /\ \E r \in RunIds :
           /\ runs[r].file_url = <<"x.pdf">>
           /\ runs[r].pc = "done"
           /\ Stored(runs[r]).exists
           /\ Stored(runs[r]).status \in TerminalStatuses

\* the patterns of a key whose match in the text coerces, by list position
Coercing(key, text) ==
    {n \in 1..Len(PATTERNS[key]) :
        /\ Search(PATTERNS[key][n], text) # 0
        /\ \/ key = "employee_name"
           \/ FloatOk(StripCommas(text[Search(PATTERNS[key][n], text)].value))}

\* the coerced match of pattern n of a key
Coerced(key, text, n) ==
    LET value == StripCommas(text[Search(PATTERNS[key][n], text)].value)
    IN  IF key = "employee_name" THEN StrValue(Strip(value)) ELSE NumValue(Float(value))

KeySet == {Keys[i] : i \in 1..Len(Keys)}

\* C16: for a parsed non-empty text, each field's value is the coerced match of
\* the first pattern in list order whose match in the text coerces (a match
\* that float() refuses is passed over, later patterns are not looked at), and
\* None when no pattern of the field has such a match.
C16_FirstPatternWins ==
    \A r \in RunIds :
        (runs[r].pc = "parsed" /\ runs[r].text # <<>>)
            => /\ DOMAIN runs[r].data = KeySet
               /\ \A key \in KeySet :
                      LET good == Coercing(key, runs[r].text)
                      IN  IF good = {}
                          THEN runs[r].data[key] = NoneValue
                          ELSE \E n \in good :
                                   /\ \A m \in good : n <= m
                                   /\ runs[r].data[key] = Coerced(key, runs[r].text, n)

\* "TOTAL HOURS: 1.2.3" matches the first pattern and does not coerce, the
\* second pattern's "HOURS WORKED: 45" decides: 45 hours
C16_Witness ==
    \E r \in RunIds :
        /\ runs[r].pc = "parsed"
        /\ Len(runs[r].text) = 2
        /\ runs[r].text[1].label = "TOTAL HOURS:"
        /\ runs[r].text[2].label = "HOURS WORKED:"
        /\ runs[r].data.total_hours = NumValue(4500)

\* the text without the lines in which a pattern of the key finds its label
Without(key, text) ==
    LET Other(line) == \A n \in 1..Len(PATTERNS[key]) : line.label \notin LabelHits(PATTERNS[key][n])
    IN  SelectSeq(text, Other)

C18_EmptyTextAllNone ==
    \A r \in RunIds :
        (runs[r].pc = "parsed" /\ runs[r].text = <<>>)
            => runs[r].data = [key \in KeySet |-> NoneValue]

\* a field of a FieldRecord holds a number greater than 0
Positive(data, key) == key \in DOMAIN data /\ data[key].kind = "float" /\ data[key].num > 0

\* a field of a FieldRecord holds no number
Missing(data, key) == key \notin DOMAIN data \/ data[key].kind # "float"

\* C19: every evaluation of a FieldRecord returns checks in which
\* total_compensation_valid is true exactly when net_pay and gross_pay are both
\* present and greater than 0, whatever the hours and the shift input.
C19_TotalCompensationValid ==
    \A r \in RunIds :
        runs[r].pc \in {"evaluated", "legacy_evaluated", "legacy_raised"}
            => /\ runs[r].pc # "legacy_raised"
               /\ runs[r].compliance_results.checks.total_compensation_valid
                      <=> (Positive(runs[r].data, "net_pay") /\ Positive(runs[r].data, "gross_pay"))

\* C20: when net_pay or total_hours is missing, total_hours is zero, or
\* gross_pay is missing with total_hours over 40, the checks server_new.py
\* returns have minimum_wage and overtime_compliant both false.
C20_MissingNeverCompliant ==
    \A r \in RunIds :
        (/\ runs[r].pc = "evaluated"
         /\ \/ Missing(runs[r].data, "net_pay")
            \/ Missing(runs[r].data, "total_hours")
            \/ GetNumber(runs[r].data, "total_hours") = 0
            \/ /\ GetNumber(runs[r].data, "total_hours") > StandardWeek
               /\ Missing(runs[r].data, "gross_pay"))
            => /\ ~runs[r].compliance_results.checks.minimum_wage
               /\ ~runs[r].compliance_results.checks.overtime_compliant

\* C21: with net_pay > 0 and total_hours > 0, minimum_wage is true exactly
\* when the regular rate, net_pay / total_hours up to 40 hours and
\* gross_pay / total_hours above, is at least 16.50; 640.00 for 40 hours is
\* not enough.
C21_MinimumWage ==
    \A r \in RunIds :
        (/\ runs[r].pc = "evaluated"
         /\ Positive(runs[r].data, "net_pay")
         /\ Positive(runs[r].data, "total_hours"))
            => LET hours == runs[r].data.total_hours.num
                   pay   == IF hours <= 4000 THEN runs[r].data.net_pay.num
                            ELSE GetNumber(runs[r].data, "gross_pay")
               IN  /\ runs[r].compliance_results.checks.minimum_wage
                          <=> pay * 100 >= 1650 * hours
                   /\ (hours = 4000 /\ pay = 64000)
                          => ~runs[r].compliance_results.checks.minimum_wage

\* 640.00 net for 45 hours with 800.00 gross: 17.78 an hour from the gross pay
C21_Witness ==
    \E r \in RunIds :
        /\ runs[r].pc = "evaluated"
        /\ runs[r].data.net_pay = NumValue(64000)
        /\ runs[r].data.total_hours = NumValue(4500)
        /\ runs[r].data.gross_pay = NumValue(80000)
        /\ runs[r].compliance_results.checks.minimum_wage

\* C22: with net_pay > 0 and total_hours > 0, a returned overtime_compliant is
\* true up to 40 hours, and above 40 hours exactly when
\* gross_pay - 40 * rate >= (total_hours - 40) * rate * 1.5 for
\* rate = gross_pay / total_hours (both sides times 2 * total_hours here);
\* 900.00 gross for 45 hours is not compliant.
C22_Overtime ==
    \A r \in RunIds :
        (/\ runs[r].pc \in {"evaluated", "legacy_evaluated"}
         /\ Positive(runs[r].data, "net_pay")
         /\ Positive(runs[r].data, "total_hours"))
            => LET hours == runs[r].data.total_hours.num
                   gross == GetNumber(runs[r].data, "gross_pay")
               IN  /\ runs[r].compliance_results.checks.overtime_compliant
                          <=> \/ hours <= 4000
                              \/ 2 * (gross * hours - 4000 * gross)
                                     >= 3 * (hours - 4000) * gross
                   /\ (hours = 4500 /\ gross = 90000)
                          => ~runs[r].compliance_results.checks.overtime_compliant

\* 45 hours at 900.00 gross evaluated by server_new.py: not compliant
C22_Witness ==
    \E r \in RunIds :
        /\ runs[r].pc = "evaluated"
        /\ Positive(runs[r].data, "net_pay")
        /\ runs[r].data.total_hours = NumValue(4500)
        /\ runs[r].data.gross_pay = NumValue(90000)
        /\ ~runs[r].compliance_results.checks.overtime_compliant

\* C23: long_shift_additional_pay_violation is true exactly when the shift
\* input says shifts exceeded 10 hours and counts more than 0 of them; then
\* additional_pay_owed is the count times 16.50 times 1.0 hour (49.50 for 3
\* shifts), and otherwise the result has no additional_pay_owed.
C23_LongShift ==
    \A r \in RunIds :
        runs[r].pc = "evaluated"
            => LET input   == runs[r].user_input
                   results == runs[r].compliance_results
                   long    == input.shifts_exceeded_10_hours /\ input.exceeded_shifts_count > 0
               IN  /\ results.checks.long_shift_additional_pay_violation <=> long
                   /\ results.has_additional_pay <=> long
                   /\ long => results.additional_pay_owed = input.exceeded_shifts_count * 1650
                   /\ (long /\ input.exceeded_shifts_count = 3)
                          => results.additional_pay_owed = 4950

\* three long shifts: 49.50 owed
C23_Witness ==
    \E r \in RunIds :
        /\ runs[r].pc = "evaluated"
        /\ runs[r].user_input = UserInput(TRUE, 3)
        /\ runs[r].compliance_results.checks.long_shift_additional_pay_violation
        /\ runs[r].compliance_results.has_additional_pay
        /\ runs[r].compliance_results.additional_pay_owed = 4950

\* C24: no evaluation of a FieldRecord raises, whichever of net_pay,
\* total_hours and gross_pay are None.
C24_NeverRaises ==
    \A r \in RunIds :
        runs[r].calls.evaluate > 0 => runs[r].error = ""

\* a line is "$", digits, a dot and two digits, and reads back as the amount
IsCurrency(line, amount) ==
    /\ Len(line) >= 5
    /\ line[1] = "$"
    /\ line[Len(line) - 2] = "."
    /\ \A i \in (2..Len(line)) \ {Len(line) - 2} : IsDigit(line[i])
    /\ Float(SubSeq(line, 2, Len(line))) = amount

\* C25: in a rendered report the gross pay and net pay lines show a present
\* amount as "$" and the amount with two decimals, and an amount that is None
\* or not in the record as N/A.
C25_CurrencyRendering ==
    \A r \in RunIds :
        runs[r].pc \in {"rendered", "legacy_rendered"}
            => \A key \in {"gross_pay", "net_pay"} :
                   IF Missing(runs[r].data, key)
                   THEN runs[r].report[key] = NotAvailable
                   ELSE IsCurrency(runs[r].report[key], runs[r].data[key].num)

\* C26: with net_pay > 0 and total_hours over 40, a returned
\* overtime_compliant is false whenever gross_pay > 0, and true exactly when
\* gross_pay is 0 or missing.
C26_OvertimeNeverMet ==
    \A r \in RunIds :
        (/\ runs[r].pc \in {"evaluated", "legacy_evaluated"}
         /\ Positive(runs[r].data, "net_pay")
         /\ Positive(runs[r].data, "total_hours")
         /\ runs[r].data.total_hours.num > 4000)
            => /\ Positive(runs[r].data, "gross_pay")
                      => ~runs[r].compliance_results.checks.overtime_compliant
               /\ runs[r].compliance_results.checks.overtime_compliant
                      <=> GetNumber(runs[r].data, "gross_pay") = 0

\* 45 hours at 1200.00 gross, 26.67 an hour: still not compliant
C26_Witness ==
    \E r \in RunIds :
        /\ runs[r].pc = "evaluated"
        /\ runs[r].data.net_pay = NumValue(66000)
        /\ runs[r].data.total_hours = NumValue(4500)
        /\ runs[r].data.gross_pay = NumValue(120000)
        /\ ~runs[r].compliance_results.checks.overtime_compliant

\* C27: in every run, a status update 'completed' was made after the mailer
\* returned True, an update 'completed_with_errors' after a report was
\* generated and the mailer returned False, and an update 'failed' without the
\* mailer having been called.
C27_StatusMatchesMailer ==
    \A r \in RunIds :
        \A i \in 1..Len(runs[r].writes) :
            LET status == runs[r].writes[i].status
            IN  /\ status = "completed"
                       => runs[r].calls.mail = 1 /\ runs[r].email_sent = "True"
                /\ status = "completed_with_errors"
                       => /\ runs[r].calls.render = 1
                          /\ runs[r].report_path = "/tmp/compliance_report.pdf"
                          /\ runs[r].calls.mail = 1
                          /\ runs[r].email_sent = "False"
                /\ status = "failed"
                       => runs[r].calls.mail = 0 /\ runs[r].email_sent = "unset"

\* a run that ended with 'completed_with_errors' after the mailer returned False
C27_Witness ==
    \E r \in RunIds :
        /\ runs[r].pc = "done"
        /\ LastWrite(runs[r]).status = "completed_with_errors"
        /\ runs[r].email_sent = "False"
        /\ runs[r].report_path = "/tmp/compliance_report.pdf"

\* no pattern of any field finds its label in the text
Unmatched(text) ==
    \A key \in KeySet : \A n \in 1..Len(PATTERNS[key]) : Search(PATTERNS[key][n], text) = 0

\* C28: a run whose extracted text is not empty and matches no pattern, and
\* whose parse was not interrupted, holds a record of four None values; it is
\* not ended by the parse step; the checks computed for it have minimum_wage,
\* overtime_compliant and total_compensation_valid false; and unless
\* evaluation or report generation raised, it ends, the mailer called, with
\* 'completed' or 'completed_with_errors'.
C28_UnmatchedCompletes ==
    \A r \in RunIds :
        (/\ runs[r].text # <<>>
         /\ Unmatched(runs[r].text)
         /\ runs[r].calls.parse = 1
         /\ runs[r].data # EmptyDict)
            => /\ runs[r].data = [key \in KeySet |-> NoneValue]
               /\ runs[r].pc = "done" => runs[r].calls.evaluate = 1
               /\ (runs[r].pc \in {"render", "mail", "done"} /\ runs[r].error = "")
                      => /\ ~runs[r].compliance_results.checks.minimum_wage
                         /\ ~runs[r].compliance_results.checks.overtime_compliant
                         /\ ~runs[r].compliance_results.checks.total_compensation_valid
               /\ (runs[r].pc = "done" /\ runs[r].error = "")
                      => /\ runs[r].calls.render = 1
                         /\ runs[r].calls.mail = 1
                         /\ LastWrite(runs[r]).status \in {"completed", "completed_with_errors"}

\* a text of one line no pattern looks for, and the run ended 'completed'
C28_Witness ==
    \E r \in RunIds :
        /\ runs[r].text = <<Line("MEMO:", <<"x">>)>>
        /\ runs[r].data = [key \in KeySet |-> NoneValue]
        /\ runs[r].pc = "done"
        /\ runs[r].email_sent = "True"
        /\ LastWrite(runs[r]).status = "completed"

\* C29: a status update the store refuses stops nothing.  With no run yet, a
\* submission can be accepted and its thread started with the store left as it
\* is; a run about to call the mailer can mail the report, make its 'completed'
\* update and end with the store left as it is; and whatever the store holds, a
\* run that mailed the report has ended with the updates 'processing' and
\* 'completed' made.
C29_RefusedWriteSwallowed ==
    /\ runs = <<>> => ENABLED (ProcessAccepted /\ db' = db)
    /\ \A r \in RunIds :
           /\ runs[r].pc = "mail"
                  => ENABLED (/\ SendEmail
                              /\ db' = db
                              /\ runs'[r].pc = "done"
                              /\ runs'[r].email_sent = "True")
           /\ runs[r].email_sent = "True"
                  => /\ runs[r].pc = "done"
                     /\ Len(runs[r].writes) = 2
                     /\ runs[r].writes[1].status = "processing"
                     /\ runs[r].writes[2].status = "completed"

\* the report was mailed and the stored status is still 'processing'
C29_Witness ==
    \E r \in RunIds :
        /\ runs[r].pc = "done"
        /\ runs[r].email_sent = "True"
        /\ LastWrite(runs[r]).status = "completed"
        /\ Stored(runs[r]).exists
        /\ Stored(runs[r]).status = "processing"

\* C30: whatever the first submission of a file_url has come to and whatever
\* the store holds for it, a second submission of the same file_url can be
\* accepted and starts a run of its own from the download step; when the
\* stored status is a terminal one, that submission can put 'processing' in
\* its place; and each run that mailed a report made one mailer call of its
\* own.
C30_EverySubmissionRuns ==
    /\ Len(runs) = 1
           => /\ ENABLED (/\ ProcessAccepted
                          /\ Len(runs') = 2
                          /\ runs'[1] = runs[1]
                          /\ runs'[2].file_url = runs[1].file_url
                          /\ runs'[2].pc = "download"
                          /\ runs'[2].calls = NoCalls)
              /\ (Stored(runs[1]).exists /\ Stored(runs[1]).status \in TerminalStatuses)
                     => ENABLED (/\ ProcessAccepted
                                 /\ runs'[2].file_url = runs[1].file_url
                                 /\ db'[generate_document_id(runs[1].file_url)].status
                                        = "processing")
    /\ \A r \in RunIds : runs[r].email_sent = "True" => runs[r].calls.mail = 1

\* two submissions of one file_url, and each of the two runs mailed a report
C30_Witness ==
    /\ Len(runs) = 2
    /\ runs[1].file_url = runs[2].file_url
    /\ \A r \in RunIds :
           /\ runs[r].pc = "done"
           /\ runs[r].calls.mail = 1
           /\ runs[r].email_sent = "True"

====
